---------------------------- MODULE Spec2Model ----------------------------
(***************************************************************************)
(* EchoVerse (src/app.py): a Streamlit script that rewrites a text in a    *)
(* tone (TextRewriter), narrates it with gTTS into a temporary .mp3        *)
(* (AudioGenerator) and renders the result (EchoVerseApp.run).             *)
(*                                                                         *)
(* A text is a sequence of one-character strings.  Python's None is the    *)
(* value None below for texts and NoFile for file names.                   *)
(***************************************************************************)
EXTENDS Integers, Sequences, FiniteSets, TLC

(***************************************************************************)
(* Bounds of the model.                                                    *)
(***************************************************************************)
MaxLen == 2     \* longest enumerated input text over Alphabet
MaxFiles == 2   \* temporary files the file system may hold

Alphabet == {"a", " "}

\* characters str.strip() and str.split() treat as whitespace
Whitespace == {" ", "\t", "\n", "\r", "\f"}

None == <<"None">>
NoFile == 0

(***************************************************************************)
(* String literals of the source, as texts.                                *)
(***************************************************************************)
NeutralPrefix == <<
   "I","n"," ","a"," ","c","l","e","a","r"," ","a","n","d"," ","p","r","o",
   "f","e","s","s","i","o","n","a","l"," ","m","a","n","n","e","r",":"," " >>

SuspensefulPrefix == <<
   "W","i","t","h"," ","b","u","i","l","d","i","n","g"," ","t","e","n","s",
   "i","o","n"," ","a","n","d"," ","i","n","t","r","i","g","u","e",":"," " >>

SuspensefulSuffix == <<
   ".",".","."," ","W","h","a","t"," ","h","a","p","p","e","n","s"," ","n",
   "e","x","t"," ","w","i","l","l"," ","s","u","r","p","r","i","s","e"," ",
   "y","o","u","." >>

InspiringPrefix == <<
   "W","i","t","h"," ","g","r","e","a","t"," ","d","e","t","e","r","m","i",
   "n","a","t","i","o","n"," ","a","n","d"," ","h","o","p","e",":"," " >>

InspiringSuffix == <<
   " ","T","h","i","s"," ","i","s"," ","j","u","s","t"," ","t","h","e"," ",
   "b","e","g","i","n","n","i","n","g"," ","o","f"," ","a","n"," ","i","n",
   "c","r","e","d","i","b","l","e"," ","j","o","u","r","n","e","y","." >>

\* the options of the two selectboxes of render_customization_section
Tones == {"Neutral", "Suspenseful", "Inspiring"}
VoiceOptions == {"Lisa", "Michael", "Allison"}

\* AudioGenerator.voices
voices == [Lisa    |-> <<"e","n","-","u","s">>,
           Michael |-> <<"e","n","-","u","k">>,
           Allison |-> <<"e","n","-","a","u">>]

DefaultLocale == <<"e","n","-","u","s">>

(***************************************************************************)
(* Input texts: every text over Alphabet up to MaxLen, a blank text made   *)
(* of other whitespace, "Hello world", and a text of 1000 characters in    *)
(* 150 words (101 words of six letters, then 49 words of five).            *)
(***************************************************************************)
HelloWorld == << "H","e","l","l","o"," ","w","o","r","l","d" >>

LongText ==
  [i \in 1..1000 |->
     IF i <= 707 THEN (IF i % 7 = 0 THEN " " ELSE "a")
                 ELSE (IF (i - 707) % 6 = 0 THEN " " ELSE "b")]

ShortTexts == UNION {[1..n -> Alphabet] : n \in 0..MaxLen}

Texts == ShortTexts \cup {<<"\n", "\t">>, HelloWorld, LongText}

(***************************************************************************)
(* Python string methods.                                                  *)
(***************************************************************************)
IsSpace(c) == c \in Whitespace

\* str.strip(): drop leading and trailing whitespace
strip(s) ==
  LET keep  == {i \in 1..Len(s) : ~IsSpace(s[i])}
      first == CHOOSE i \in keep : \A j \in 1..(i - 1) : IsSpace(s[j])
      final == CHOOSE i \in keep : \A j \in (i + 1)..Len(s) : IsSpace(s[j])
  IN  IF keep = {} THEN <<>> ELSE SubSeq(s, first, final)

\* str.split(): the maximal runs of non-whitespace, in order;
\* split_range(s, lo, hi) is the runs of s[lo..hi], cut at a whitespace
\* character near the middle
RECURSIVE split_range(_, _, _)
split_range(s, lo, hi) ==
  LET ws  == {i \in lo..hi : IsSpace(s[i])}
      mid == (lo + hi) \div 2
      m   == IF \E i \in ws : i >= mid
               THEN CHOOSE i \in ws : i >= mid /\ \A j \in mid..(i - 1) : j \notin ws
               ELSE CHOOSE i \in ws : \A j \in (i + 1)..hi : j \notin ws
  IN  IF lo > hi THEN <<>>
      ELSE IF ws = {} THEN <<SubSeq(s, lo, hi)>>
      ELSE split_range(s, lo, m - 1) \o split_range(s, m + 1, hi)

split(s) == split_range(s, 1, Len(s))

\* str.split(sep) for a one-character sep: the segments between separators
split_sep(s, sep) ==
  LET cuts == {i \in 1..Len(s) : s[i] = sep}
      n    == Cardinality(cuts)
      cut(k) == IF k = 0 THEN 0
                ELSE IF k = n + 1 THEN Len(s) + 1
                ELSE CHOOSE i \in cuts : Cardinality({j \in cuts : j <= i}) = k
  IN  [k \in 1..(n + 1) |-> SubSeq(s, cut(k - 1) + 1, cut(k) - 1)]

\* truthiness of a text-or-None value
Truthy(x) == x # None /\ x # <<>>

IsPrefix(p, s) == Len(p) <= Len(s) /\ SubSeq(s, 1, Len(p)) = p


(***************************************************************************)
(* Outcomes of a call, and the messages st.error / st.info put on the page.*)
(***************************************************************************)
Return(v) == [raised |-> FALSE, value |-> v]
Raise(e) == [raised |-> TRUE, value |-> <<e>>]

StError(m, d) == [level |-> "error", msg |-> m, detail |-> d]
StInfo(m) == [level |-> "info", msg |-> m, detail |-> <<>>]

(***************************************************************************)
(* EchoVerseConfig                                                         *)
(***************************************************************************)
\* what the three text inputs of the sidebar can hold
Configs == [WATSON_API_KEY : {"", "key"},
            WATSON_URL : {"", "url"},
            WATSONX_PROJECT_ID : {"", "project"}]

EmptyConfig == [WATSON_API_KEY |-> "", WATSON_URL |-> "", WATSONX_PROJECT_ID |-> ""]

validate_credentials(cfg) ==
  LET missing == (IF cfg.WATSON_API_KEY = "" THEN <<"WATSON_API_KEY">> ELSE <<>>)
                 \o (IF cfg.WATSON_URL = "" THEN <<"WATSON_URL">> ELSE <<>>)
                 \o (IF cfg.WATSONX_PROJECT_ID = "" THEN <<"WATSONX_PROJECT_ID">> ELSE <<>>)
  IN  IF missing # <<>>
        THEN [ok |-> FALSE,
              messages |-> {StError("Missing credentials", missing),
                            StInfo("Please set your IBM Watson credentials in the configuration section")}]
        ELSE [ok |-> TRUE, messages |-> {}]

(***************************************************************************)
(* TextRewriter                                                            *)
(***************************************************************************)
\* a slip: a tone outside the three raises
_simulate_rewrite_strict(text, tone) ==
  IF tone = "Neutral" THEN Return(NeutralPrefix \o text)
  ELSE IF tone = "Suspenseful" THEN Return(SuspensefulPrefix \o text \o SuspensefulSuffix)
  ELSE IF tone = "Inspiring" THEN Return(InspiringPrefix \o text \o InspiringSuffix)
  ELSE Raise("InvalidTone")

_simulate_rewrite(text, tone) ==
  IF tone = "Neutral" THEN Return(NeutralPrefix \o text)
  ELSE IF tone = "Suspenseful" THEN Return(SuspensefulPrefix \o text \o SuspensefulSuffix)
  ELSE IF tone = "Inspiring" THEN Return(InspiringPrefix \o text \o InspiringSuffix)
  ELSE Return(text)

\* a slip: the credentials are checked and the simulation runs regardless
rewrite_text_lenient(cfg, text, tone) ==
  LET v == validate_credentials(cfg)
      r == _simulate_rewrite(text, tone)
  IN  IF r.raised
        THEN [raised |-> FALSE, value |-> text,
              messages |-> v.messages \cup {StError("Error rewriting text", r.value)}]
        ELSE [raised |-> FALSE, value |-> r.value, messages |-> v.messages]

\* a slip: missing credentials return no text at all
rewrite_text_blocked(cfg, text, tone) ==
  LET v == validate_credentials(cfg)
      r == _simulate_rewrite(text, tone)
  IN  IF ~v.ok
        THEN [raised |-> FALSE, value |-> <<>>, messages |-> v.messages]
        ELSE [raised |-> FALSE, value |-> r.value, messages |-> {}]

\* the returned text and the messages put on the page; an exception of
\* _simulate_rewrite is caught and reported
rewrite_text(cfg, text, tone) ==
  LET v == validate_credentials(cfg)
      r == _simulate_rewrite(text, tone)
  IN  IF ~v.ok
        THEN [raised |-> FALSE, value |-> text, messages |-> v.messages]
        ELSE IF r.raised
          THEN [raised |-> FALSE, value |-> text,
                messages |-> {StError("Error rewriting text", r.value)}]
          ELSE [raised |-> FALSE, value |-> r.value, messages |-> {}]

(***************************************************************************)
(* AudioGenerator.  The file system is the sequence of temporary files     *)
(* created so far (nothing in the source removes one); a file's name is    *)
(* its index.  gTTS is the synthesis engine: its constructor or its save   *)
(* may raise.                                                              *)
(***************************************************************************)
EngineOutcomes == {"ok", "ctor_error", "save_error"}

NoCall == [text |-> None, lang |-> <<>>, slow |-> FALSE]

NewFile == [audio |-> FALSE, reads |-> 0]

voices_get(voice, default) ==
  IF voice \in DOMAIN voices THEN voices[voice] ELSE default

\* a slip: the locale is handed to gTTS whole
LangCode_unsplit(voice) == voices_get(voice, DefaultLocale)

\* the language code handed to gTTS: lang.split('-')[0]
LangCode(voice) == split_sep(voices_get(voice, DefaultLocale), "-")[1]

\* a slip: no try/except around the synthesis, its error leaves the call
generate_audio_unguarded(text, voice, outcome, fs) ==
  LET call == [text |-> text, lang |-> LangCode(voice), slow |-> FALSE]
      locale == voices_get(voice, DefaultLocale)
      name == Len(fs) + 1
      failed(fs2) == [raised |-> TRUE, value |-> NoFile, tts |-> call, fs |-> fs2,
                      locale |-> locale, messages |-> {}]
  IN  IF outcome = "ctor_error" THEN failed(fs)
      ELSE IF outcome = "save_error" THEN failed(Append(fs, NewFile))
      ELSE [raised |-> FALSE, value |-> name, tts |-> call,
            fs |-> Append(fs, [audio |-> TRUE, reads |-> 0]),
            locale |-> locale, messages |-> {}]

generate_audio(text, voice, outcome, fs) ==
  LET call == [text |-> text, lang |-> LangCode(voice), slow |-> FALSE]
      locale == voices_get(voice, DefaultLocale)
      name == Len(fs) + 1
      failed(fs2) == [raised |-> FALSE, value |-> NoFile, tts |-> call, fs |-> fs2,
                      locale |-> locale,
                      messages |-> {StError("Error generating audio", <<outcome>>)}]
  IN  IF outcome = "ctor_error" THEN failed(fs)
      ELSE IF outcome = "save_error" THEN failed(Append(fs, NewFile))
      ELSE [raised |-> FALSE, value |-> name, tts |-> call,
            fs |-> Append(fs, [audio |-> TRUE, reads |-> 0]),
            locale |-> locale, messages |-> {}]

exists(audio_file, fs) == audio_file \in 1..Len(fs)

\* open(audio_file, 'rb').read() of create_audio_player
create_audio_player(audio_file, fs) ==
  IF audio_file # NoFile /\ exists(audio_file, fs)
    THEN [fs EXCEPT ![audio_file].reads = @ + 1]
    ELSE fs

\* open(audio_file, 'rb').read() of create_download_button
create_download_button(audio_file, fs) ==
  IF audio_file # NoFile /\ exists(audio_file, fs)
    THEN [fs EXCEPT ![audio_file].reads = @ + 1]
    ELSE fs

\* the numbers of the "Audio Statistics" line
Statistics(text) ==
  [characterCount |-> Len(text),
   wordCount |-> Len(split(text)),
   minutes |-> Len(text) \div 200]

NoStatistics == [characterCount |-> -1, wordCount |-> -1, minutes |-> -1]


(***************************************************************************)
(* EchoVerseApp: one execution of the script (main, run) per interaction   *)
(* of the user.  A run reads the widgets, processes, displays and ends;    *)
(* only the temporary files outlive it.                                    *)
(***************************************************************************)
VARIABLES
  config,          \* app.config, as set by render_credentials_section
  text_content,    \* run(): text_content
  tone,            \* run(): tone
  voice,           \* run(): voice
  button,          \* what st.button returned in this run
  pc,              \* position of the running script
  rewritten_text,  \* run(): rewritten_text
  audio_file,      \* run(): audio_file
  tmpfiles,        \* the temporary files on disk
  messages,        \* st.error / st.info messages of this run
  sections,        \* result sections rendered in this run
  trace,           \* component calls of this run, in order
  tts,             \* the call made to the synthesis engine in this run
  engine,          \* how the synthesis engine answered in this run
  stats,           \* the statistics line of this run
  arg_text,        \* direct use of the components: the text argument
  arg_tone,        \* direct use of the components: the tone argument
  arg_voice,       \* direct use of the components: the voice argument
  last,            \* direct use of the components: the last call
  prev             \* direct use of the components: the rewrite_text call before

appVars == <<config, text_content, tone, voice, button, pc, rewritten_text,
             audio_file, tmpfiles, messages, sections, trace, tts, engine, stats>>
apiVars == <<arg_text, arg_tone, arg_voice, last, prev>>
vars == <<config, text_content, tone, voice, button, pc, rewritten_text,
          audio_file, tmpfiles, messages, sections, trace, tts, engine, stats,
          arg_text, arg_tone, arg_voice, last, prev>>

NoRecord ==
  [fn |-> "none", text |-> None, arg |-> "", cfg |-> EmptyConfig,
   raised |-> FALSE, value |-> None, file |-> NoFile, messages |-> {},
   tts |-> NoCall, locale |-> <<>>]

NoRewrite == [text |-> None, tone |-> "", valid |-> FALSE, value |-> None]

\* no script is running: EchoVerseConfig.__init__ values, no locals
NoRun ==
  /\ config = EmptyConfig
  /\ text_content = <<>>
  /\ tone = "Neutral"
  /\ voice = "Lisa"
  /\ button = FALSE
  /\ pc = "idle"
  /\ rewritten_text = None
  /\ audio_file = NoFile
  /\ messages = {}
  /\ sections = {}
  /\ trace = <<>>
  /\ tts = NoCall
  /\ engine = "none"
  /\ stats = NoStatistics

Init ==
  /\ NoRun
  /\ tmpfiles = <<>>
  /\ arg_text = <<>>
  /\ arg_tone = "Neutral"
  /\ arg_voice = "Lisa"
  /\ last = NoRecord
  /\ prev = NoRewrite

\* a slip: only the empty text is refused
IsBlank_unstripped(text) == text = <<>>

\* render_processing_section: not text_content.strip()
IsBlank(text) == strip(text) = <<>>

\* main(), run() up to st.divider(): a new script execution reads the widgets
run_inputs ==
  /\ pc = "idle"
  /\ \E cfg \in Configs, t \in Texts, tn \in Tones, v \in VoiceOptions :
       /\ config' = cfg
       /\ text_content' = t
       /\ tone' = tn
       /\ voice' = v
  /\ pc' = "processing"
  /\ UNCHANGED <<button, rewritten_text, audio_file, tmpfiles, messages, sections,
                 trace, tts, engine, stats>>
  /\ UNCHANGED apiVars

\* render_processing_section: blank text
processing_blank ==
  /\ pc = "processing"
  /\ IsBlank(text_content)
  /\ messages' = messages \cup {StInfo("Please enter some text to continue.")}
  /\ rewritten_text' = None
  /\ audio_file' = NoFile
  /\ pc' = "display"
  /\ UNCHANGED <<config, text_content, tone, voice, button, tmpfiles, sections,
                 trace, tts, engine, stats>>
  /\ UNCHANGED apiVars

\* a slip: the text is processed whether or not the button was pressed
processing_idle_unconditional ==
  /\ pc = "processing"
  /\ ~IsBlank(text_content)
  /\ Len(tmpfiles) < MaxFiles
  /\ button' = FALSE
  /\ LET r == rewrite_text(config, text_content, tone)
     IN  /\ rewritten_text' = r.value
         /\ messages' = messages \cup r.messages
  /\ trace' = Append(trace, "rewrite_text")
  /\ pc' = "narrate"
  /\ UNCHANGED <<config, text_content, tone, voice, audio_file, tmpfiles,
                 sections, tts, engine, stats>>
  /\ UNCHANGED apiVars

\* render_processing_section: the button is shown and was not pressed
processing_idle ==
  /\ pc = "processing"
  /\ ~IsBlank(text_content)
  /\ button' = FALSE
  /\ rewritten_text' = None
  /\ audio_file' = NoFile
  /\ pc' = "display"
  /\ UNCHANGED <<config, text_content, tone, voice, tmpfiles, messages, sections,
                 trace, tts, engine, stats>>
  /\ UNCHANGED apiVars

\* render_processing_section: the button was pressed, step 1
processing_rewrite ==
  /\ pc = "processing"
  /\ ~IsBlank(text_content)
  /\ Len(tmpfiles) < MaxFiles
  /\ button' = TRUE
  /\ LET r == rewrite_text(config, text_content, tone)
     IN  /\ rewritten_text' = r.value
         /\ messages' = messages \cup r.messages
  /\ trace' = Append(trace, "rewrite_text")
  /\ pc' = "narrate"
  /\ UNCHANGED <<config, text_content, tone, voice, audio_file, tmpfiles,
                 sections, tts, engine, stats>>
  /\ UNCHANGED apiVars

\* a slip: the original text is narrated
processing_narrate_original ==
  /\ pc = "narrate"
  /\ \E outcome \in EngineOutcomes :
       LET r == generate_audio(text_content, voice, outcome, tmpfiles)
       IN  /\ engine' = outcome
           /\ tts' = r.tts
           /\ tmpfiles' = r.fs
           /\ messages' = messages \cup r.messages
           /\ audio_file' = r.value
           /\ pc' = IF r.raised THEN "crashed" ELSE "display"
  /\ trace' = Append(trace, "generate_audio")
  /\ UNCHANGED <<config, text_content, tone, voice, button, rewritten_text,
                 sections, stats>>
  /\ UNCHANGED apiVars

\* render_processing_section: step 2 and the return
processing_narrate ==
  /\ pc = "narrate"
  /\ \E outcome \in EngineOutcomes :
       LET r == generate_audio(rewritten_text, voice, outcome, tmpfiles)
       IN  /\ engine' = outcome
           /\ tts' = r.tts
           /\ tmpfiles' = r.fs
           /\ messages' = messages \cup r.messages
           /\ audio_file' = r.value
           /\ pc' = IF r.raised THEN "crashed" ELSE "display"
  /\ trace' = Append(trace, "generate_audio")
  /\ UNCHANGED <<config, text_content, tone, voice, button, rewritten_text,
                 sections, stats>>
  /\ UNCHANGED apiVars

\* a slip: the statistics are taken from the original text
display_original_statistics ==
  /\ pc = "display"
  /\ IF Truthy(rewritten_text)
       THEN IF audio_file # NoFile
              THEN /\ sections' = {"comparison", "audio"}
                   /\ tmpfiles' = create_download_button(audio_file,
                                    create_audio_player(audio_file, tmpfiles))
                   /\ stats' = Statistics(text_content)
              ELSE /\ sections' = {"comparison"}
                   /\ UNCHANGED <<tmpfiles, stats>>
       ELSE UNCHANGED <<sections, tmpfiles, stats>>
  /\ pc' = "done"
  /\ UNCHANGED <<config, text_content, tone, voice, button, rewritten_text,
                 audio_file, messages, trace, tts, engine>>
  /\ UNCHANGED apiVars

\* run(): "Display results", then the script ends
display ==
  /\ pc = "display"
  /\ IF Truthy(rewritten_text)
       THEN IF audio_file # NoFile
              THEN /\ sections' = {"comparison", "audio"}
                   /\ tmpfiles' = create_download_button(audio_file,
                                    create_audio_player(audio_file, tmpfiles))
                   /\ stats' = Statistics(rewritten_text)
              ELSE /\ sections' = {"comparison"}
                   /\ UNCHANGED <<tmpfiles, stats>>
       ELSE UNCHANGED <<sections, tmpfiles, stats>>
  /\ pc' = "done"
  /\ UNCHANGED <<config, text_content, tone, voice, button, rewritten_text,
                 audio_file, messages, trace, tts, engine>>
  /\ UNCHANGED apiVars

\* main() returns: the app object and the locals of run() are gone; the
\* temporary files stay
script_end ==
  /\ pc = "done"
  /\ config' = EmptyConfig
  /\ text_content' = <<>>
  /\ tone' = "Neutral"
  /\ voice' = "Lisa"
  /\ button' = FALSE
  /\ pc' = "idle"
  /\ rewritten_text' = None
  /\ audio_file' = NoFile
  /\ messages' = {}
  /\ sections' = {}
  /\ trace' = <<>>
  /\ tts' = NoCall
  /\ engine' = "none"
  /\ stats' = NoStatistics
  /\ UNCHANGED tmpfiles
  /\ UNCHANGED apiVars

Next ==
  \/ run_inputs
  \/ processing_blank
  \/ processing_idle
  \/ processing_rewrite
  \/ processing_narrate
  \/ display
  \/ script_end

Spec == Init /\ [][Next]_vars

(***************************************************************************)
(* Direct use of the two components on arguments of any value: the         *)
(* arguments are fixed at the start, each call goes through last, and prev *)
(* is what the rewrite_text call before the last one was given and         *)
(* returned.                                                               *)
(***************************************************************************)
AnyTones == Tones \cup {"Unknown"}
AnyVoices == VoiceOptions \cup {"Unknown"}

InitApi ==
  /\ NoRun
  /\ tmpfiles = <<>>
  /\ arg_text \in Texts
  /\ arg_tone \in AnyTones
  /\ arg_voice \in AnyVoices
  /\ last = NoRecord
  /\ prev = NoRewrite

Observed(rec) ==
  [text |-> rec.text, tone |-> rec.arg,
   valid |-> validate_credentials(rec.cfg).ok, value |-> rec.value]

call_rewrite_text ==
  /\ \E cfg \in Configs :
       LET r == rewrite_text(cfg, arg_text, arg_tone)
       IN  last' = [fn |-> "rewrite_text", text |-> arg_text, arg |-> arg_tone,
                    cfg |-> cfg, raised |-> r.raised, value |-> r.value,
                    file |-> NoFile, messages |-> r.messages, tts |-> NoCall,
                    locale |-> <<>>]
  /\ prev' = IF last.fn = "rewrite_text" THEN Observed(last) ELSE prev
  /\ UNCHANGED <<arg_text, arg_tone, arg_voice>>
  /\ UNCHANGED appVars

call_generate_audio ==
  /\ \E outcome \in EngineOutcomes :
       LET r == generate_audio(arg_text, arg_voice, outcome, <<>>)
       IN  last' = [fn |-> "generate_audio", text |-> arg_text, arg |-> arg_voice,
                    cfg |-> EmptyConfig, raised |-> r.raised, value |-> None,
                    file |-> r.value, messages |-> r.messages, tts |-> r.tts,
                    locale |-> r.locale]
  /\ UNCHANGED <<arg_text, arg_tone, arg_voice, prev>>
  /\ UNCHANGED appVars

NextApi ==
  \/ call_rewrite_text
  \/ call_generate_audio

SpecApi == InitApi /\ [][NextApi]_vars

(***************************************************************************)
(* Properties.  The notions they use are stated here on their own terms,   *)
(* not through the operators above.                                        *)
(***************************************************************************)
Blank(t) == \A i \in 1..Len(t) : t[i] \in Whitespace

CredentialsComplete(cfg) ==
  cfg.WATSON_API_KEY # "" /\ cfg.WATSON_URL # "" /\ cfg.WATSONX_PROJECT_ID # ""

TonePrefix(tn) ==
  IF tn = "Neutral" THEN NeutralPrefix
  ELSE IF tn = "Suspenseful" THEN SuspensefulPrefix
  ELSE InspiringPrefix

\* number of whitespace-separated tokens: the places where a token begins
WordCount(t) ==
  Cardinality({i \in 1..Len(t) :
                 t[i] \notin Whitespace /\ (i = 1 \/ t[i-1] \in Whitespace)})

Reported(msgs, lvl, m) == \E x \in msgs : x.level = lvl /\ x.msg = m

EngineFailed == engine \in {"ctor_error", "save_error"}

\* C1: when the synthesis engine raises inside generate_audio, the run does
\* not raise: the rewritten text is non-null, the audio file is None, an
\* error message is shown, and at the end of the run the comparison section
\* is rendered and the audio section is not.
C1_SynthesisFailureKeepsText ==
  /\ pc # "crashed"
  /\ EngineFailed =>
       /\ Truthy(rewritten_text)
       /\ audio_file = NoFile
       /\ Reported(messages, "error", "Error generating audio")
       /\ pc = "done" => sections = {"comparison"} /\ stats = NoStatistics

C1_Witness ==
  /\ pc = "done"
  /\ engine = "save_error"
  /\ tone = "Suspenseful"
  /\ voice = "Michael"
  /\ sections = {"comparison"}

C4_BlankTextShortCircuits ==
  /\ (pc \in {"display", "done"} /\ Blank(text_content)) =>
       /\ rewritten_text = None
       /\ audio_file = NoFile
       /\ trace = <<>>
       /\ tts = NoCall
       /\ engine = "none"
       /\ messages = {StInfo("Please enter some text to continue.")}
       /\ ~button
  /\ (pc \in {"narrate", "crashed"} \/ tts # NoCall) => ~Blank(text_content)
  /\ tts # NoCall => ~Blank(tts.text)

C4_Witness ==
  /\ pc = "done"
  /\ text_content = <<" ", " ">>
  /\ messages # {}
  /\ Len(tmpfiles) > 0

C6_TemporaryFilesReleased ==
  Len(tmpfiles) <= (IF pc = "idle" THEN 0 ELSE 1)

C8_VoiceResolvesToEn ==
  last.fn = "generate_audio" =>
     /\ ~last.raised
     /\ last.arg \notin VoiceOptions => last.locale = <<"e", "n", "-", "u", "s">>
     /\ last.tts.lang = <<"e", "n">>
     /\ IsPrefix(last.tts.lang \o <<"-">>, last.locale)
     /\ last.tts.slow = FALSE
     /\ last.tts.text = last.text

C8_Witness ==
  /\ last.fn = "generate_audio"
  /\ last.arg = "Unknown"
  /\ last.text = HelloWorld
  /\ last.tts.lang = <<"e", "n">>
  /\ last.file # NoFile

C10_NothingCarriedBetweenRuns ==
  /\ (pc \in {"display", "done"} /\ ~button) =>
       /\ rewritten_text = None
       /\ audio_file = NoFile
       /\ trace = <<>>
       /\ tts = NoCall
       /\ sections = {}
       /\ stats = NoStatistics
  /\ sections # {} =>
       /\ button
       /\ trace = <<"rewrite_text", "generate_audio">>

C10_Witness ==
  /\ pc = "done"
  /\ ~button
  /\ ~Blank(text_content)
  /\ Len(tmpfiles) > 0
  /\ tmpfiles[1].reads = 2

=============================================================================
